---- MODULE Spec2Model ----
(***************************************************************************)
(* Model of the Mornoningo quiz / learning-note server                     *)
(* (src/server/main.py, src/server/learning_note_storage.py).              *)
(*                                                                         *)
(* A request handler is an async function: it runs without interruption    *)
(* from one await to the next.  Each action below is one such run: the     *)
(* code from the handler's entry (or from the point where a remote call    *)
(* returns) up to the next remote call, or up to the handler's return or   *)
(* raise.                                                                  *)
(*                                                                         *)
(* Text is modelled as a sequence of one-character strings, so that        *)
(* str.strip, str.replace and str.join are computed and not assumed.       *)
(* Timestamps are the integer reading of a clock that never runs back.     *)
(***************************************************************************)
EXTENDS Integers, Sequences, FiniteSets, TLC

VARIABLES
    files,      \* UPLOAD_DIR: fileId -> [exists, chunks]; chunks are the page texts
    notes,      \* LEARNING_NOTE_DIR: fileId -> <<>> (no file) or <<record>>
    clock,      \* datetime.now(timezone.utc)
    started,    \* number of learning-note requests received so far
    req,        \* request slot -> the state of the handler running in it
    quizzes,    \* quiz_storage: the records added, in order
    quiz        \* the state of the quiz handler

vars == <<files, notes, clock, started, req, quizzes, quiz>>

(***************************************************************************)
(* Bounds of the model                                                     *)
(***************************************************************************)
MaxChunks == 2
MaxPages == 5
MaxClock == 2
MaxRequests == 3
MaxItems == 2

(***************************************************************************)
(* Program constants                                                       *)
(***************************************************************************)
MinWindowSize == 1
DefaultWindowSize == 3
MaxWindowSize == 7

FileIds == {"f1", "f2"}
Reqs == {"r1", "r2"}
WindowSizes == MinWindowSize..MaxWindowSize

Min(a, b) == IF a <= b THEN a ELSE b
Max(a, b) == IF a >= b THEN a ELSE b

(***************************************************************************)
(* Text                                                                    *)
(***************************************************************************)
RECURSIVE LStrip(_)
LStrip(s) == IF s # <<>> /\ Head(s) = " " THEN LStrip(Tail(s)) ELSE s

RECURSIVE RStrip(_)
RStrip(s) ==
    IF s # <<>> /\ s[Len(s)] = " " THEN RStrip(SubSeq(s, 1, Len(s) - 1)) ELSE s

Strip(s) == LStrip(RStrip(s))

RECURSIVE RemoveFences(_)
RemoveFences(s) ==
    IF s = <<>> THEN <<>>
    ELSE IF Head(s) = "~" THEN RemoveFences(Tail(s))
    ELSE <<Head(s)>> \o RemoveFences(Tail(s))

\* generate_with_gemini, line 76: the code fences ("~" stands for one) are
\* removed and the text is stripped
CleanResponse(raw) == Strip(RemoveFences(raw))

\* generate_with_gemini: a call that raises in the thread pool, or answers with
\* no text, raises HTTPException(500); otherwise the cleaned text is returned
GenerateWithGemini(transportOk, raw) ==
    IF ~transportOk \/ raw = <<>>
    THEN [ok |-> FALSE, text |-> <<>>]
    ELSE [ok |-> TRUE, text |-> CleanResponse(raw)]

\* _clip_text
ClipText(value, limit) ==
    LET text == Strip(value)
    IN  IF Len(text) <= limit THEN text
        ELSE RStrip(SubSeq(text, 1, limit)) \o <<" ", "...">>

MAX_PAGE_TEXT_CHARS == 6000

(***************************************************************************)
(* Per-page summaries                                                      *)
(***************************************************************************)
\* dict.get with None read as the empty value: every use below is "get or ..."
Get(d, k) == IF k \in DOMAIN d THEN d[k] ELSE <<>>

\* a or b, for values whose falsy form is the empty sequence
Or(a, b) == IF a # <<>> THEN a ELSE b

RECURSIVE StripAll(_)
StripAll(items) ==
    IF items = <<>> THEN <<>>
    ELSE LET x == Strip(Head(items))
         IN  (IF x # <<>> THEN <<x>> ELSE <<>>) \o StripAll(Tail(items))

\* _parse_page_summary on a JSON object (keyPoints given as a list)
ParsePageSummary(data) ==
    [outline |-> Strip(Or(Get(data, "outline"), Get(data, "summary"))),
     keyPoints |->
        LET kp == StripAll(Or(Get(data, "keyPoints"),
                              Or(Get(data, "bullets"), Get(data, "details"))))
        IN  SubSeq(kp, 1, Min(5, Len(kp))),
     studyQuestion |-> Strip(Or(Get(data, "studyQuestion"), Get(data, "quiz")))]

\* What the remote model may answer to a page-summary prompt:
\*   transport: the call returned; json: the cleaned text parses as JSON;
\*   object: the JSON value is an object; data: that object
SummaryDicts ==
    { [summary |-> <<" ", "o">>, keyPoints |-> << <<"k", " ">>, <<" ">> >>,
       studyQuestion |-> <<"q">>] }

SummaryAnswers ==
    { [transport |-> FALSE, json |-> FALSE, object |-> FALSE, data |-> <<>>],
      [transport |-> TRUE, json |-> FALSE, object |-> FALSE, data |-> <<>>],
      [transport |-> TRUE, json |-> TRUE, object |-> FALSE, data |-> <<>>] }
    \cup { [transport |-> TRUE, json |-> TRUE, object |-> TRUE, data |-> d] :
           d \in SummaryDicts }

\* _summarize_single_page: the summary, or a raise (HTTPException from the
\* call or from json.loads, AttributeError from data.get on a non-object)
SummarizeSinglePage(answer) ==
    IF answer.transport /\ answer.json /\ answer.object
    THEN [ok |-> TRUE, summary |-> ParsePageSummary(answer.data)]
    ELSE [ok |-> FALSE, summary |-> <<>>]

(***************************************************************************)
(* Window planner (_summarize_windows)                                     *)
(***************************************************************************)
ClampedSize(n, windowSize) == Max(1, Min(windowSize, n))
Left(n, windowSize) == ClampedSize(n, windowSize) \div 2
\* faulty variant: the anchor itself is not counted off the right half
Right_Wide(n, windowSize) == ClampedSize(n, windowSize) - Left(n, windowSize)

Right(n, windowSize) == ClampedSize(n, windowSize) - Left(n, windowSize) - 1

\* lines 448-449, idx counted from 0 as in the code
WinStart(n, windowSize, idx) == Max(0, idx - Left(n, windowSize))
\* faulty variant: the end is taken inclusive
WinEnd_Inclusive(n, windowSize, idx) == Min(n, idx + Right(n, windowSize))

WinEnd(n, windowSize, idx) == Min(n, idx + Right(n, windowSize) + 1)
WinKey(n, windowSize, idx) ==
    <<WinStart(n, windowSize, idx), WinEnd(n, windowSize, idx)>>

\* faulty variant: sub-ranges are remembered by their start alone
SkipAnchor_ByStart(n, windowSize, idx, seen) ==
    \/ WinEnd(n, windowSize, idx) - WinStart(n, windowSize, idx) <= 0
    \/ \E key \in seen : key[1] = WinStart(n, windowSize, idx)

\* lines 450-454: whether the loop body skips anchor idx
SkipAnchor(n, windowSize, idx, seen) ==
    \/ WinEnd(n, windowSize, idx) - WinStart(n, windowSize, idx) <= 0
    \/ WinKey(n, windowSize, idx) \in seen

\* the first anchor at or after idx the loop does not skip, n when there is none
RECURSIVE NextAnchor(_, _, _, _)
NextAnchor(n, windowSize, idx, seen) ==
    IF idx >= n THEN n
    ELSE IF SkipAnchor(n, windowSize, idx, seen)
         THEN NextAnchor(n, windowSize, idx + 1, seen)
         ELSE idx

\* pages[start:end]
Slice(pages, start, end) == SubSeq(pages, start + 1, end)

\* lines 458-465: the window built from the pages of a sub-range
MakeWindow(windowPages, markdown) ==
    [startPage |-> windowPages[1].index,
     endPage |-> windowPages[Len(windowPages)].index,
     pageIndexes |-> [i \in 1..Len(windowPages) |-> windowPages[i].index],
     markdown |-> markdown]

\* list.sort(key=startPage) is stable: an element goes after every element
\* already placed whose key is not greater
\* faulty variant: a sort that is not stable (equal keys change places)
RECURSIVE InsertByStartPage_Unstable(_, _)
InsertByStartPage_Unstable(sorted, w) ==
    IF sorted = <<>> THEN <<w>>
    ELSE IF Head(sorted).startPage < w.startPage
         THEN <<Head(sorted)>> \o InsertByStartPage_Unstable(Tail(sorted), w)
         ELSE <<w>> \o sorted

RECURSIVE InsertByStartPage(_, _)
InsertByStartPage(sorted, w) ==
    IF sorted = <<>> THEN <<w>>
    ELSE IF Head(sorted).startPage <= w.startPage
         THEN <<Head(sorted)>> \o InsertByStartPage(Tail(sorted), w)
         ELSE <<w>> \o sorted

RECURSIVE SortByStartPage(_)
SortByStartPage(windows) ==
    IF windows = <<>> THEN <<>>
    ELSE InsertByStartPage(
             SortByStartPage(SubSeq(windows, 1, Len(windows) - 1)),
             windows[Len(windows)])

\* "\n\n".join(parts)
RECURSIVE Join(_)
Join(parts) ==
    IF parts = <<>> THEN <<>>
    ELSE IF Len(parts) = 1 THEN Head(parts)
    ELSE Head(parts) \o <<"\n", "\n">> \o Join(Tail(parts))

\* _merge_markdown, line 505: the stripped markdown of the windows that have one
RECURSIVE MarkdownParts(_)
MarkdownParts(windows) ==
    IF windows = <<>> THEN <<>>
    ELSE (IF Head(windows).markdown # <<>>
          THEN <<Strip(Head(windows).markdown)>> ELSE <<>>)
         \o MarkdownParts(Tail(windows))

RECURSIVE NonEmpty(_)
NonEmpty(parts) ==
    IF parts = <<>> THEN <<>>
    ELSE (IF Head(parts) # <<>> THEN <<Head(parts)>> ELSE <<>>)
         \o NonEmpty(Tail(parts))

MergeMarkdown(windows) == Join(NonEmpty(MarkdownParts(windows)))

\* What the remote model may answer to a window-merge prompt
MergeAnswers ==
    { [transport |-> FALSE, raw |-> <<>>],
      [transport |-> TRUE, raw |-> <<>>],
      [transport |-> TRUE, raw |-> <<"~">>],
      [transport |-> TRUE, raw |-> <<"a">>],
      [transport |-> TRUE, raw |-> <<"~", " ", "b", " ">>] }

(***************************************************************************)
(* generate_learning_note                                                  *)
(***************************************************************************)
\* LearningNoteStorage.read: None when the note file does not exist.  The
\* files of the store are only ever written whole by save (os.replace), so the
\* JSONDecodeError branch is not reachable from the handlers.
StorageRead(store, fileId) == store[fileId]

\* LearningNoteStorage.save / write: the document of fileId is replaced
StorageSave(store, fileId, payload) == [store EXCEPT ![fileId] = <<payload>>]

\* id numbers the requests in the order the server received them
IdleRequest ==
    [id |-> 0, pc |-> "idle", fileId |-> "f1", windowSize |-> DefaultWindowSize,
     force |-> FALSE, existing |-> <<>>, ci |-> 0, pages |-> <<>>, idx |-> 0,
     windows |-> <<>>, seen |-> {}, issued |-> <<>>, calls |-> 0, saves |-> 0,
     status |-> 0, response |-> <<>>]

\* the handler is left: its local variables are gone; the slot keeps the
\* request, what was answered and the log of the calls made
Leave(s) ==
    [s EXCEPT !.existing = <<>>, !.ci = 0, !.pages = <<>>, !.idx = 0,
              !.windows = <<>>, !.seen = {}]

\* raise HTTPException(status)
Raise(s, status) == [Leave(s) EXCEPT !.pc = "failed", !.status = status]

\* return record
Return(s, record) ==
    [Leave(s) EXCEPT !.pc = "done", !.status = 200, !.response = record]

\* the position of the first chunk at or after ci whose stripped text is not
\* empty (lines 219-222), Len(chunks) + 1 when there is none
RECURSIVE NextChunk(_, _)
NextChunk(chunks, ci) ==
    IF ci > Len(chunks) THEN ci
    ELSE IF Strip(chunks[ci]) = <<>> THEN NextChunk(chunks, ci + 1)
    ELSE ci

\* faulty variant: a regeneration stamps createdAt anew
FinishNote_Restamp(s, windows, now) ==
    LET record == [fileId |-> s.fileId, createdAt |-> now, updatedAt |-> now,
                   pageCount |-> Len(s.pages), windowSize |-> s.windowSize,
                   pages |-> s.pages, windows |-> windows,
                   markdown |-> MergeMarkdown(windows)]
    IN  Return([s EXCEPT !.saves = @ + 1], <<record>>)

\* lines 238-251: the record is built and saved, the handler returns it
FinishNote(s, windows, now) ==
    LET created_at == IF s.existing # <<>> THEN s.existing[1].createdAt ELSE 0
        record == [fileId |-> s.fileId,
                   createdAt |-> IF created_at # 0 THEN created_at ELSE now,
                   updatedAt |-> now,
                   pageCount |-> Len(s.pages),
                   windowSize |-> s.windowSize,
                   pages |-> s.pages,
                   windows |-> windows,
                   markdown |-> MergeMarkdown(windows)]
    IN  Return([s EXCEPT !.saves = @ + 1], <<record>>)

\* _summarize_windows from anchor `from` on: up to the next merge call
\* (line 457), or, when no anchor is left, the sort and the rest of the handler
RunWindows(s, from, now) ==
    LET n == Len(s.pages)
        i == NextAnchor(n, s.windowSize, from, s.seen)
    IN  IF i < n
        THEN [s EXCEPT !.pc = "merge", !.idx = i,
                       !.seen = @ \cup {WinKey(n, s.windowSize, i)},
                       !.issued = Append(@, WinKey(n, s.windowSize, i)),
                       !.calls = @ + 1]
        ELSE FinishNote(s, SortByStartPage(s.windows), now)

\* lines 219-236 from chunk ci on: up to the next page-summary call (line 223),
\* or, past the last chunk, into _summarize_windows
RunPages(s, chunks, ci, now) ==
    LET c == NextChunk(chunks, ci)
    IN  IF c <= Len(chunks)
        THEN [s EXCEPT !.pc = "summ", !.ci = c, !.calls = @ + 1]
        ELSE IF s.pages = <<>> THEN Raise([s EXCEPT !.ci = c], 400)
        ELSE RunWindows([s EXCEPT !.ci = c], 0, now)

\* faulty variant: the stored note is served only when its window size is the
\* requested one
StartNote_SameSize(s0, store, file, now) ==
    LET s == [s0 EXCEPT !.existing = StorageRead(store, s0.fileId)]
    IN  IF /\ s.existing # <<>>
           /\ ~s.force
           /\ s.existing[1].windowSize = s.windowSize
        THEN Return(s, s.existing)
        ELSE IF ~file.exists THEN Raise(s, 404)
        ELSE IF ~file.supported THEN Raise(s, 400)
        ELSE IF file.chunks = <<>> THEN Raise(s, 400)
        ELSE RunPages(s, file.chunks, 1, now)

\* lines 206-216: the handler from its entry
StartNote(s0, store, file, now) ==
    LET s == [s0 EXCEPT !.existing = StorageRead(store, s0.fileId)]
    IN  IF s.existing # <<>> /\ ~s.force
        THEN Return(s, s.existing)
        ELSE IF ~file.exists THEN Raise(s, 404)
        ELSE IF ~file.supported THEN Raise(s, 400)
        ELSE IF file.chunks = <<>> THEN Raise(s, 400)
        ELSE RunPages(s, file.chunks, 1, now)

\* lines 223-231: a page-summary call returns
AfterSummary(s, chunks, answer, now) ==
    LET got == SummarizeSinglePage(answer)
        text == Strip(chunks[s.ci])
        page == [index |-> s.ci, label |-> <<"Page", s.ci>>,
                 text |-> ClipText(text, MAX_PAGE_TEXT_CHARS),
                 summary |-> got.summary]
    IN  IF ~got.ok THEN Raise(s, 500)
        ELSE RunPages([s EXCEPT !.pages = Append(@, page)], chunks, s.ci + 1, now)

\* faulty variant: when a merge call fails the windows merged so far are saved
\* before the error is raised
AfterMerge_SavePartial(s, answer, now) ==
    LET got == GenerateWithGemini(answer.transport, answer.raw)
        n == Len(s.pages)
        window_pages == Slice(s.pages, WinStart(n, s.windowSize, s.idx),
                              WinEnd(n, s.windowSize, s.idx))
        window == MakeWindow(window_pages, Strip(got.text))
    IN  IF ~got.ok
        THEN [FinishNote(s, SortByStartPage(s.windows), now)
                 EXCEPT !.pc = "failed", !.status = 500]
        ELSE RunWindows([s EXCEPT !.windows = Append(@, window)], s.idx + 1, now)

\* lines 457-465: a window-merge call returns
AfterMerge(s, answer, now) ==
    LET got == GenerateWithGemini(answer.transport, answer.raw)
        n == Len(s.pages)
        window_pages == Slice(s.pages, WinStart(n, s.windowSize, s.idx),
                              WinEnd(n, s.windowSize, s.idx))
        window == MakeWindow(window_pages, Strip(got.text))
    IN  IF ~got.ok THEN Raise(s, 500)
        ELSE RunWindows([s EXCEPT !.windows = Append(@, window)], s.idx + 1, now)

\* the store after a run of the handler that took it from s to t
StoreAfter(store, s, t) ==
    IF t.saves > s.saves THEN StorageSave(store, t.fileId, t.response[1])
    ELSE store

(***************************************************************************)
(* JSON values of a quiz answer.  A value is [t, n, s, l]: its type t, and *)
(* its content: n of an int, s (characters) of a str, l of a list of       *)
(* strings; "missing" is an absent key (dict.get gives None), "inf" the    *)
(* float json.loads makes of Infinity or 1e999.                            *)
(***************************************************************************)
Val(t, n, str, l) == [t |-> t, n |-> n, s |-> str, l |-> l]
Missing == Val("missing", 0, <<>>, <<>>)
Null == Val("null", 0, <<>>, <<>>)
Inf == Val("inf", 0, <<>>, <<>>)
IntV(n) == Val("int", n, <<>>, <<>>)
StrV(str) == Val("str", 0, str, <<>>)
ListV(l) == Val("list", 0, <<>>, l)

\* bool(v)
Truthy(v) ==
    CASE v.t \in {"missing", "null"} -> FALSE
      [] v.t = "int" -> v.n # 0
      [] v.t = "str" -> v.s # <<>>
      [] v.t = "list" -> v.l # <<>>
      [] OTHER -> TRUE

\* a or b
PyOr(a, b) == IF Truthy(a) THEN a ELSE b

Digits == <<"0", "1", "2", "3", "4", "5", "6", "7", "8", "9">>
IsDigit(c) == \E d \in 1..10 : Digits[d] = c
DigitValue(c) == (CHOOSE d \in 1..10 : Digits[d] = c) - 1

RECURSIVE DecimalValue(_, _)
DecimalValue(str, acc) ==
    IF str = <<>> THEN acc
    ELSE DecimalValue(Tail(str), 10 * acc + DigitValue(Head(str)))

\* int(v): [ok, n], or what it raises
PyInt(v) ==
    CASE v.t = "int" -> [ok |-> TRUE, n |-> v.n, raises |-> "none"]
      [] v.t = "str" ->
            LET str == Strip(v.s)
                signed == str # <<>> /\ Head(str) \in {"-", "+"}
                digits == IF signed THEN Tail(str) ELSE str
            IN  IF digits # <<>> /\ \A i \in 1..Len(digits) : IsDigit(digits[i])
                THEN [ok |-> TRUE,
                      n |-> IF signed /\ Head(str) = "-"
                            THEN 0 - DecimalValue(digits, 0)
                            ELSE DecimalValue(digits, 0),
                      raises |-> "none"]
                ELSE [ok |-> FALSE, n |-> 0, raises |-> "ValueError"]
      [] v.t = "inf" -> [ok |-> FALSE, n |-> 0, raises |-> "OverflowError"]
      [] OTHER -> [ok |-> FALSE, n |-> 0, raises |-> "TypeError"]

(***************************************************************************)
(* _parse_quiz_payload                                                     *)
(***************************************************************************)
\* lines 350-352: the options of an item
ItemOptions(item) ==
    LET options == PyOr(PyOr(item.options, item.opts), ListV(<<>>))
    IN  IF options.t = "list" THEN options.l ELSE <<>>

\* line 355: item.get("correctIndex", item.get("correct"))
ItemCorrect(item) ==
    IF item.correctIndex.t # "missing" THEN item.correctIndex ELSE item.correct

\* faulty variant: the index is clamped from below only
ClampIndex_NoUpper(correct_index, options) == Max(0, correct_index)

\* line 365: max(0, min(correct_index, len(options[:4]) - 1))
ClampIndex(correct_index, options) ==
    Max(0, Min(correct_index, Len(SubSeq(options, 1, Min(4, Len(options)))) - 1))

\* lines 360-368: the question made of item number idx (from 0)
MakeQuestion(item, idx) ==
    LET options == ItemOptions(item)
        got == PyInt(ItemCorrect(item))
        correct_index == IF got.ok THEN got.n ELSE 0
    IN  [question |-> PyOr(PyOr(item.question, item.q), Val("label", idx + 1, <<>>, <<>>)),
         options |-> SubSeq(options, 1, 4),
         correctIndex |-> ClampIndex(correct_index, options),
         explanation |-> IF item.explanation.t = "missing" THEN StrV(<<>>)
                         ELSE item.explanation]

\* lines 353-354: whether the loop drops the item
DropsItem(item) == Len(ItemOptions(item)) < 4

\* what handling one item raises: AttributeError from item.get when the item is
\* no JSON object, OverflowError from int() (only TypeError and ValueError
\* are caught, lines 356-359)
ItemRaises(item) ==
    IF ~item.obj THEN "AttributeError"
    ELSE IF ~DropsItem(item) /\ PyInt(ItemCorrect(item)).raises = "OverflowError"
         THEN "OverflowError"
    ELSE "none"

\* lines 348-368: the loop over questions_raw from item number idx on;
\* [raises, questions]
RECURSIVE ParseItems(_, _, _)
ParseItems(items, idx, questions) ==
    IF idx >= Len(items) THEN [raises |-> "none", questions |-> questions]
    ELSE LET item == items[idx + 1]
         IN  IF ItemRaises(item) # "none"
             THEN [raises |-> ItemRaises(item), questions |-> <<>>]
             ELSE IF DropsItem(item) THEN ParseItems(items, idx + 1, questions)
             ELSE ParseItems(items, idx + 1,
                             Append(questions, MakeQuestion(item, idx)))

\* lines 373-379: the notes of an object answer (a list of strings, or absent)
ParseNotes(data) ==
    IF data.shape = "object" /\ data.notes.t = "list"
    THEN StripAll([i \in 1..Len(data.notes.l) |-> <<data.notes.l[i]>>])
    ELSE <<>>

\* faulty variant: an empty question list is returned as it is
ParseQuizPayload_AllowEmpty(data) ==
    IF ~data.json THEN [raises |-> "HTTPException", questions |-> <<>>, notes |-> <<>>]
    ELSE IF data.shape = "other"
    THEN [raises |-> "HTTPException", questions |-> <<>>, notes |-> <<>>]
    ELSE LET got == ParseItems(data.questions, 0, <<>>)
         IN  IF got.raises # "none"
             THEN [raises |-> got.raises, questions |-> <<>>, notes |-> <<>>]
             ELSE [raises |-> "none", questions |-> got.questions,
                   notes |-> ParseNotes(data)]

\* _parse_quiz_payload on the JSON value of the answer.  data.json: the text
\* parses; data.shape: "object" (with a questions list), "array", or "other"
ParseQuizPayload(data) ==
    IF ~data.json THEN [raises |-> "HTTPException", questions |-> <<>>, notes |-> <<>>]
    ELSE IF data.shape = "other"
    THEN [raises |-> "HTTPException", questions |-> <<>>, notes |-> <<>>]
    ELSE LET got == ParseItems(data.questions, 0, <<>>)
         IN  IF got.raises # "none"
             THEN [raises |-> got.raises, questions |-> <<>>, notes |-> <<>>]
             ELSE IF got.questions = <<>>
             THEN [raises |-> "HTTPException", questions |-> <<>>, notes |-> <<>>]
             ELSE [raises |-> "none", questions |-> got.questions,
                   notes |-> ParseNotes(data)]

(***************************************************************************)
(* generate_quiz_from_text, generate_quiz_from_file                        *)
(***************************************************************************)
MinNormalizedChars == 30

\* QuizStorage.add_record: the record is appended and gets an id
AddRecord(store, record) == Append(store, [record EXCEPT !.id = Len(store) + 1])

IdleQuiz ==
    [pc |-> "idle", sourceType |-> "text", fileId |-> "f1", status |-> 0,
     answer |-> <<>>, response |-> <<>>]

\* lines 144-149: up to the remote call
StartQuizFromText(normalizedLen) ==
    IF normalizedLen < MinNormalizedChars
    THEN [IdleQuiz EXCEPT !.pc = "failed", !.status = 400]
    ELSE [IdleQuiz EXCEPT !.pc = "call"]

\* extract_text_from_pdf / _pptx: the page texts joined by newlines, normalized
RECURSIVE JoinedText(_)
JoinedText(chunks) ==
    IF chunks = <<>> THEN <<>>
    ELSE IF Len(chunks) = 1 THEN Head(chunks)
    ELSE Head(chunks) \o <<" ">> \o JoinedText(Tail(chunks))

\* lines 171-187: up to the remote call
StartQuizFromFile(fileId, file) ==
    LET s == [IdleQuiz EXCEPT !.sourceType = "file", !.fileId = fileId]
    IN  IF ~file.exists THEN [s EXCEPT !.pc = "failed", !.status = 404]
        ELSE IF ~file.supported THEN [s EXCEPT !.pc = "failed", !.status = 400]
        ELSE IF Strip(JoinedText(file.chunks)) = <<>>
        THEN [s EXCEPT !.pc = "failed", !.status = 400]
        ELSE [s EXCEPT !.pc = "call"]

\* lines 150-166 and 188-201: the record handed to add_record
QuizRecord(s, parsed, now) ==
    [id |-> 0, createdAt |-> now, sourceType |-> s.sourceType,
     numQuestions |-> Len(parsed.questions),
     questions |-> parsed.questions, notes |-> parsed.notes]

\* the handler once the remote call has returned; [s, store]
AfterQuizAnswer(s, store, answer, now) ==
    LET parsed == ParseQuizPayload(answer.data)
        t == [s EXCEPT !.answer = <<answer>>]
    IN  IF ~answer.transport
        THEN [s |-> [t EXCEPT !.pc = "failed", !.status = 500], store |-> store]
        ELSE IF parsed.raises # "none"
        THEN [s |-> [t EXCEPT !.pc = "failed", !.status = 500], store |-> store]
        ELSE LET added == AddRecord(store, QuizRecord(s, parsed, now))
             IN  [s |-> [t EXCEPT !.pc = "done", !.status = 200,
                                  !.response = <<[questions |-> parsed.questions,
                                                  notes |-> parsed.notes,
                                                  quizId |-> added[Len(added)].id]>>],
                  store |-> added]

(***************************************************************************)
(* Actions                                                                 *)
(***************************************************************************)
\* the window sizes and merge answers the requests of Spec are drawn from
NoteWindowSizes == {MinWindowSize, DefaultWindowSize, MaxWindowSize}
NoteMergeAnswers == {a \in MergeAnswers : a.raw \in {<<>>, <<"~", " ", "b", " ">>}}

Request(r, fileId, windowSize, force) ==
    /\ req[r].pc \in {"idle", "done", "failed"}
    /\ started < MaxRequests
    /\ LET s0 == [IdleRequest EXCEPT !.id = started + 1,
                                     !.fileId = fileId,
                                     !.windowSize = windowSize,
                                     !.force = force]
           t == StartNote(s0, notes, files[fileId], clock)
       IN  /\ req' = [req EXCEPT ![r] = t]
           /\ notes' = StoreAfter(notes, s0, t)
    /\ started' = started + 1
    /\ UNCHANGED <<files, clock, quizzes, quiz>>

SummaryReturns(r, answer) ==
    /\ req[r].pc = "summ"
    /\ LET t == AfterSummary(req[r], files[req[r].fileId].chunks, answer, clock)
       IN  /\ req' = [req EXCEPT ![r] = t]
           /\ notes' = StoreAfter(notes, req[r], t)
    /\ UNCHANGED <<files, clock, started, quizzes, quiz>>

MergeReturns(r, answer) ==
    /\ req[r].pc = "merge"
    /\ LET t == AfterMerge(req[r], answer, clock)
       IN  /\ req' = [req EXCEPT ![r] = t]
           /\ notes' = StoreAfter(notes, req[r], t)
    /\ UNCHANGED <<files, clock, started, quizzes, quiz>>

Tick ==
    /\ clock < MaxClock
    /\ clock' = clock + 1
    /\ UNCHANGED <<files, notes, started, req, quizzes, quiz>>

\* the uploaded documents: page texts as the extractor hands them over
\* (extract_pdf_pages / extract_pptx_slides number the chunks from 1)
ChunkTexts == {<<>>, <<"t">>}
ChunkLists == UNION { [1..k -> ChunkTexts] : k \in 0..MaxChunks }
Uploads ==
    { [exists |-> FALSE, supported |-> FALSE, chunks |-> <<>>],
      [exists |-> TRUE, supported |-> FALSE, chunks |-> <<>>] }
    \cup { [exists |-> TRUE, supported |-> TRUE, chunks |-> c] : c \in ChunkLists }

Init ==
    /\ files \in {g \in [FileIds -> Uploads] :
                      ~g["f2"].exists \/ g["f2"].chunks = << <<"t">> >>}
    /\ notes = [f \in FileIds |-> <<>>]
    /\ clock = 1
    /\ started = 0
    /\ req = [r \in Reqs |-> IdleRequest]
    /\ quizzes = <<>>
    /\ quiz = IdleQuiz

\* Spec serves the requests one after the other, in slot r1
Serving == {"r1"}

Next ==
    \/ \E r \in Serving, f \in FileIds, w \in NoteWindowSizes, force \in BOOLEAN :
           Request(r, f, w, force)
    \/ \E r \in Serving, a \in SummaryAnswers : SummaryReturns(r, a)
    \/ \E r \in Serving, a \in NoteMergeAnswers : MergeReturns(r, a)
    \/ Tick

Spec == Init /\ [][Next]_vars

(***************************************************************************)
(* _summarize_windows alone: request r1 has summarized its pages and has   *)
(* just issued its first merge call; the page count, the pages' indexes    *)
(* and the window size are drawn from bounded sets.                        *)
(***************************************************************************)
\* the elements of a set of integers in increasing order
RECURSIVE Ascending(_)
Ascending(S) ==
    IF S = {} THEN <<>>
    ELSE LET m == CHOOSE x \in S : \A y \in S : x <= y
         IN  <<m>> \o Ascending(S \ {m})

TheSummary == ParsePageSummary(CHOOSE d \in SummaryDicts : TRUE)

SummarizedRequest(S, windowSize) ==
    LET idxs == Ascending(S)
        s == [IdleRequest EXCEPT
                 !.id = 1, !.force = TRUE, !.windowSize = windowSize,
                 !.ci = MaxPages + 1, !.calls = Len(idxs),
                 !.pages = [i \in 1..Len(idxs) |->
                               [index |-> idxs[i], label |-> <<"Page", idxs[i]>>,
                                text |-> <<"t">>, summary |-> TheSummary]]]
    IN  RunWindows(s, 0, 1)

InitWindows ==
    /\ \E S \in (SUBSET (1..MaxPages)) \ {{}}, w \in WindowSizes :
           /\ files = [f \in FileIds |->
                         IF f = "f1"
                         THEN [exists |-> TRUE, supported |-> TRUE,
                               chunks |-> [i \in 1..MaxPages |->
                                             IF i \in S THEN <<"t">> ELSE <<>>]]
                         ELSE [exists |-> FALSE, supported |-> FALSE,
                               chunks |-> <<>>]]
           /\ req = [r \in Reqs |->
                       IF r = "r1" THEN SummarizedRequest(S, w) ELSE IdleRequest]
    /\ notes = [f \in FileIds |-> <<>>]
    /\ clock = 1
    /\ started = 1
    /\ quizzes = <<>>
    /\ quiz = IdleQuiz

NextWindows == \E a \in MergeAnswers : MergeReturns("r1", a)

SpecWindows == InitWindows /\ [][NextWindows]_vars

(***************************************************************************)
(* The quiz endpoints: one quiz request, from text or from an uploaded     *)
(* file, and the answers the remote model may give to it.                  *)
(***************************************************************************)
Item(question, q, options, opts, correctIndex, correct) ==
    [obj |-> TRUE, question |-> question, q |-> q, options |-> options,
     opts |-> opts, correctIndex |-> correctIndex, correct |-> correct,
     explanation |-> Missing]

\* an element of the list that is no JSON object (a string, a number, null)
NonObject == [Item(Missing, Missing, Missing, Missing, Missing, Missing)
                 EXCEPT !.obj = FALSE]

QA == StrV(<<"q">>)
Four == ListV(<<"a", "b", "c", "d">>)
Five == ListV(<<"e", "f", "g", "h", "i">>)
Three == ListV(<<"a", "b", "c">>)

CorrectValues ==
    {Missing, Null, Inf, IntV(0 - 1), IntV(2), IntV(99),
     StrV(<<"a", "b", "c">>), StrV(<<" ", "2">>)}

Items ==
    {NonObject}
    \cup {Item(QA, Missing, Four, Missing, c, Missing) : c \in CorrectValues}
    \cup {Item(QA, Missing, o, Missing, IntV(1), Missing) :
          o \in {Missing, Three, Five, StrV(<<"a", "b", "c", "d">>)}}
    \cup {Item(QA, Missing, o, Five, IntV(99), Missing) :
          o \in {ListV(<<>>), StrV(<<"a", "b", "c", "d">>)}}
    \cup {Item(QA, Missing, Five, Missing, Missing, IntV(3)),
          Item(Missing, Missing, Four, Missing, IntV(2), Missing)}

ItemLists == UNION { [1..k -> Items] : k \in 0..MaxItems }

QuizData ==
    { [json |-> FALSE, shape |-> "other", questions |-> <<>>, notes |-> Missing],
      [json |-> TRUE, shape |-> "other", questions |-> <<>>, notes |-> Missing] }
    \cup { [json |-> TRUE, shape |-> "array", questions |-> l, notes |-> Missing] :
           l \in ItemLists }
    \cup { [json |-> TRUE, shape |-> "object", questions |-> l,
            notes |-> ListV(<<"n", " ">>)] : l \in ItemLists }

QuizAnswers ==
    { [transport |-> FALSE, data |-> CHOOSE d \in QuizData : ~d.json] }
    \cup { [transport |-> TRUE, data |-> d] : d \in QuizData }

QuizFromText(normalizedLen) ==
    /\ quiz.pc = "idle"
    /\ quiz' = StartQuizFromText(normalizedLen)
    /\ UNCHANGED <<files, notes, clock, started, req, quizzes>>

QuizFromFile(fileId) ==
    /\ quiz.pc = "idle"
    /\ quiz' = StartQuizFromFile(fileId, files[fileId])
    /\ UNCHANGED <<files, notes, clock, started, req, quizzes>>

QuizReturns(answer) ==
    /\ quiz.pc = "call"
    /\ LET t == AfterQuizAnswer(quiz, quizzes, answer, clock)
       IN  /\ quiz' = t.s
           /\ quizzes' = t.store
    /\ UNCHANGED <<files, notes, clock, started, req>>

InitQuiz ==
    /\ files \in {g \in [FileIds -> Uploads] :
                      /\ ~g["f2"].exists
                      /\ g["f1"].exists
                      /\ g["f1"].chunks \in {<<>>, << <<>> >>, << <<"t">> >>}}
    /\ notes = [f \in FileIds |-> <<>>]
    /\ clock = 1
    /\ started = 0
    /\ req = [r \in Reqs |-> IdleRequest]
    /\ quizzes = <<>>
    /\ quiz = IdleQuiz

NextQuiz ==
    \/ \E len \in {MinNormalizedChars - 1, MinNormalizedChars} : QuizFromText(len)
    \/ \E f \in FileIds : QuizFromFile(f)
    \/ \E a \in QuizAnswers : QuizReturns(a)

SpecQuiz == InitQuiz /\ [][NextQuiz]_vars

(***************************************************************************)
(* Properties of _summarize_windows                                        *)
(***************************************************************************)
\* the requests whose handler has returned a generated note
Generated == {r \in Reqs : req[r].pc = "done" /\ req[r].saves > 0}

Elems(seq) == {seq[i] : i \in DOMAIN seq}
PageIndexes(pages) == [i \in 1..Len(pages) |-> pages[i].index]

\* C1: for every page count n >= 1 and every window size, every page position
\* of [0,n) lies in at least one emitted window, and no emitted window is empty.
C1_WindowsCoverPages ==
    \A r \in Generated :
        LET note == req[r].response[1]
        IN  /\ Len(note.pages) >= 1
            /\ \A p \in 1..Len(note.pages) :
                   \E k \in 1..Len(note.windows) :
                       note.pages[p].index \in Elems(note.windows[k].pageIndexes)
            /\ \A k \in 1..Len(note.windows) : note.windows[k].pageIndexes # <<>>

C1_Witness ==
    \E r \in Generated :
        /\ Len(req[r].response[1].pages) >= 4
        /\ req[r].windowSize = 2
        /\ Len(req[r].response[1].windows) >= 4

\* C2 as stated: with 5 pages and window size 5 exactly one window, covering
\* all five pages, is emitted and exactly one merge call is issued.
C2_OneWindow ==
    \A r \in Generated :
        LET note == req[r].response[1]
        IN  Len(note.pages) = 5 /\ req[r].windowSize = 5 =>
                /\ Len(note.windows) = 1
                /\ note.windows[1].pageIndexes = PageIndexes(note.pages)
                /\ Len(req[r].issued) = 1

\* C2 amended: with 5 pages and window size 5 the five anchors give the five
\* distinct sub-ranges [0,3), [0,4), [0,5), [1,5), [2,5); five windows are
\* emitted, in that order, with five merge calls, and exactly one of them
\* covers all five pages.
C2_FiveWindows ==
    \A r \in Generated :
        LET note == req[r].response[1]
            all == PageIndexes(note.pages)
        IN  Len(note.pages) = 5 /\ req[r].windowSize = 5 =>
                /\ req[r].issued =
                      << <<0, 3>>, <<0, 4>>, <<0, 5>>, <<1, 5>>, <<2, 5>> >>
                /\ Len(note.windows) = 5
                /\ note.windows[1].pageIndexes = SubSeq(all, 1, 3)
                /\ note.windows[2].pageIndexes = SubSeq(all, 1, 4)
                /\ note.windows[3].pageIndexes = all
                /\ note.windows[4].pageIndexes = SubSeq(all, 2, 5)
                /\ note.windows[5].pageIndexes = SubSeq(all, 3, 5)

C2_Witness ==
    \E r \in Generated :
        /\ Len(req[r].response[1].pages) = 5
        /\ req[r].windowSize = 5
        /\ Len(req[r].response[1].windows) = 5

\* C9: in one run the number of merge calls equals the number of distinct
\* sub-ranges the anchors produce and the number of emitted windows, no
\* sub-range is merged twice and no two windows have the same pageIndexes.
C9_EachRangeMergedOnce ==
    \A r \in Reqs :
        LET s == req[r]
        IN  /\ \A i, j \in 1..Len(s.issued) : s.issued[i] = s.issued[j] => i = j
            /\ r \in Generated =>
                   LET note == s.response[1]
                       n == Len(note.pages)
                       ranges ==
                           {<<Max(0, i - Left(n, s.windowSize)),
                              Min(n, i + Right(n, s.windowSize) + 1)>> :
                            i \in 0..(n - 1)}
                   IN  /\ Len(s.issued) = Cardinality(ranges)
                       /\ Elems(s.issued) = ranges
                       /\ Len(note.windows) = Len(s.issued)
                       /\ \A i, j \in 1..Len(note.windows) :
                              note.windows[i].pageIndexes
                                  = note.windows[j].pageIndexes => i = j

C9_Witness ==
    \E r \in Generated :
        /\ Len(req[r].response[1].pages) = 4
        /\ req[r].windowSize >= 4
        /\ Len(req[r].issued) = 4
        /\ req[r].issued[1][1] = req[r].issued[2][1]

\* the markdowns of windows 1..k that are not empty, joined by a blank line
RECURSIVE MarkdownUpTo(_, _)
MarkdownUpTo(windows, k) ==
    IF k = 0 THEN <<>>
    ELSE LET before == MarkdownUpTo(windows, k - 1)
             md == windows[k].markdown
         IN  IF md = <<>> THEN before
             ELSE IF before = <<>> THEN md
             ELSE before \o <<"\n", "\n">> \o md

\* C10: merge calls are issued one at a time, in non-decreasing start order;
\* the stored windows are non-decreasing by startPage and stand in the order
\* in which their merge calls were issued; the note's markdown is the
\* concatenation of the non-empty window markdowns in that order.
C10_WindowsInCallOrder ==
    \A r \in Reqs :
        LET s == req[r]
        IN  /\ \A i, j \in 1..Len(s.issued) :
                   i <= j => s.issued[i][1] <= s.issued[j][1]
            /\ s.pc = "merge" => Len(s.issued) = Len(s.windows) + 1
            /\ s.pc = "merge" => s.calls = Len(s.pages) + Len(s.issued)
            /\ r \in Generated =>
                   LET note == notes[s.fileId][1]
                       ws == note.windows
                   IN  /\ Len(ws) = Len(s.issued)
                       /\ \A i, j \in 1..Len(ws) :
                              i <= j => ws[i].startPage <= ws[j].startPage
                       /\ \A k \in 1..Len(ws) :
                              ws[k].pageIndexes =
                                 SubSeq(PageIndexes(note.pages),
                                        s.issued[k][1] + 1, s.issued[k][2])
                       /\ note.markdown = MarkdownUpTo(ws, Len(ws))

C10_Witness ==
    \E r \in Generated :
        LET ws == notes[req[r].fileId][1].windows
        IN  /\ Len(ws) >= 3
            /\ ws[1].startPage = ws[2].startPage
            /\ ws[1].markdown # <<>>
            /\ ws[2].markdown = <<>>
            /\ ws[3].markdown # <<>>
            /\ ws[1].markdown # ws[3].markdown


(***************************************************************************)
(* Properties of generate_learning_note                                    *)
(***************************************************************************)
\* request slot r takes a new request in this step
Received(r) == started' = started + 1 /\ req'[r].id = started'

\* the request in slot r goes on in this step (a remote call returns)
Resumed(r) == req'[r].id = req[r].id /\ req'[r] # req[r]

\* the request in slot r saves its note in this step
Saved(r) == req'[r].id = req[r].id /\ req'[r].saves = req[r].saves + 1

\* C3: a request with force = false for a fileId that has a stored note
\* returns the stored note as it is, makes no remote call and leaves the note
\* store as it was, whatever window size it carries.
C3_CacheHit ==
    [][\A r \in Reqs :
          LET f == req'[r].fileId
          IN  Received(r) /\ ~req'[r].force /\ notes[f] # <<>> =>
                  /\ req'[r].pc = "done"
                  /\ req'[r].status = 200
                  /\ req'[r].response = notes[f]
                  /\ req'[r].response[1].pages = notes'[f][1].pages
                  /\ req'[r].response[1].windows = notes'[f][1].windows
                  /\ req'[r].response[1].markdown = notes'[f][1].markdown
                  /\ req'[r].calls = 0
                  /\ req'[r].saves = 0
                  /\ notes' = notes]_vars

C3_Witness ==
    \E r \in Reqs :
        LET s == req[r]
        IN  /\ s.pc = "done" /\ ~s.force /\ s.saves = 0
            /\ s.response # <<>>
            /\ s.response = notes[s.fileId]
            /\ s.response[1].windowSize # s.windowSize
            /\ Len(s.response[1].windows) >= 2
            /\ s.calls = 0

\* the number of chunks of a document that have text
RECURSIVE TextChunks(_)
TextChunks(chunks) ==
    IF chunks = <<>> THEN 0
    ELSE (IF Head(chunks) # <<>> THEN 1 ELSE 0) + TextChunks(Tail(chunks))

\* C4: a request that fails (a page-summary or merge call raises, a page
\* summary is no JSON) never calls save: the step that fails leaves the note
\* store as it was, a failed request has saved nothing and does nothing more
\* (no retry), and every stored note is whole.
C4_FailureSavesNothing ==
    [][\A r \in Reqs :
          /\ req'[r].pc = "failed" =>
                /\ req'[r].saves = 0
                /\ req'[r].response = <<>>
          /\ Resumed(r) /\ req'[r].pc = "failed" =>
                /\ notes' = notes
                /\ req'[r].calls = req[r].calls
                /\ req'[r].status = 500
          /\ req[r].pc = "failed" /\ req'[r].id = req[r].id => req'[r] = req[r]
          /\ \A f \in FileIds :
                notes'[f] # <<>> =>
                    /\ notes'[f][1].pageCount = TextChunks(files[f].chunks)
                    /\ Len(notes'[f][1].pages) = notes'[f][1].pageCount
                    /\ \A p \in 1..Len(notes'[f][1].pages) :
                           \E k \in 1..Len(notes'[f][1].windows) :
                               notes'[f][1].pages[p].index
                                   \in Elems(notes'[f][1].windows[k].pageIndexes)]_vars

C4_Witness ==
    \E r \in Reqs :
        LET s == req[r]
        IN  /\ s.pc = "failed" /\ s.status = 500
            /\ s.force
            /\ Len(s.issued) >= 2
            /\ notes[s.fileId] # <<>>

\* C5: a forced regeneration for a fileId whose note the request found stored
\* saves a note with the createdAt of that prior record and with updatedAt the
\* time of the regeneration, not earlier than the prior updatedAt; a first
\* generation saves createdAt = updatedAt.
C5_CreatedAtKept ==
    [][\A r \in Reqs :
          Saved(r) =>
              LET f == req[r].fileId
                  prior == req[r].existing
                  note == notes'[f][1]
              IN  /\ notes'[f] = req'[r].response
                  /\ note.updatedAt = clock
                  /\ prior # <<>> =>
                        /\ req[r].force
                        /\ note.createdAt = prior[1].createdAt
                        /\ note.updatedAt >= prior[1].updatedAt
                        /\ notes[f] = prior => note.createdAt = notes[f][1].createdAt
                  /\ prior = <<>> => note.createdAt = note.updatedAt]_vars

C5_Witness ==
    \E r \in Reqs :
        LET s == req[r]
        IN  /\ s.pc = "done" /\ s.saves = 1 /\ s.force
            /\ notes[s.fileId] = s.response
            /\ s.response[1].createdAt < s.response[1].updatedAt


(***************************************************************************)
(* Properties of the quiz endpoints                                        *)
(***************************************************************************)
\* the question list of the answer the quiz request received (empty before)
AnsweredItems == IF quiz.answer = <<>> THEN <<>> ELSE quiz.answer[1].data.questions

\* the answer came through and holds a question list
ListAnswered ==
    /\ quiz.answer # <<>>
    /\ quiz.answer[1].transport
    /\ quiz.answer[1].data.json
    /\ quiz.answer[1].data.shape # "other"

ReturnedQuestions == IF quiz.pc = "done" THEN quiz.response[1].questions ELSE <<>>

\* a string int() cannot read: some character is no digit, sign or blank, or
\* there is none at all
NotANumber(v) ==
    /\ v.t = "str"
    /\ \/ v.s = <<>>
       \/ \E j \in 1..Len(v.s) : ~IsDigit(v.s[j]) /\ v.s[j] \notin {" ", "-", "+"}

\* C6: every returned question has exactly 4 options, the first four of its
\* item's options, and a correctIndex in [0,3]: an integer in range is kept,
\* one above 3 becomes 3, a negative one 0, a missing or non-coercible one 0;
\* an item with fewer than 4 options gives no question.
C6_QuestionsWellFormed ==
    \A k \in 1..Len(ReturnedQuestions) :
        LET question == ReturnedQuestions[k]
        IN  /\ Len(question.options) = 4
            /\ question.correctIndex \in 0..3
            /\ \E i \in 1..Len(AnsweredItems) :
                   LET item == AnsweredItems[i]
                       given == ItemCorrect(item)
                   IN  /\ item.obj
                       /\ Len(ItemOptions(item)) >= 4
                       /\ question.options = SubSeq(ItemOptions(item), 1, 4)
                       /\ given.t = "int" /\ given.n \in 0..3 =>
                              question.correctIndex = given.n
                       /\ given.t = "int" /\ given.n > 3 => question.correctIndex = 3
                       /\ given.t = "int" /\ given.n < 0 => question.correctIndex = 0
                       /\ given.t \in {"missing", "null"} => question.correctIndex = 0
                       /\ NotANumber(given) => question.correctIndex = 0

C6_Witness ==
    /\ Len(ReturnedQuestions) = 2
    /\ Len(AnsweredItems) = 2
    /\ ItemOptions(AnsweredItems[1]) = Five.l
    /\ AnsweredItems[1].correctIndex = IntV(99)
    /\ ReturnedQuestions[1].options = <<"e", "f", "g", "h">>
    /\ ReturnedQuestions[1].correctIndex = 3
    /\ AnsweredItems[2].correctIndex = StrV(<<"a", "b", "c">>)
    /\ ReturnedQuestions[2].correctIndex = 0

\* C7: when no item of the question list survives (each has fewer than 4
\* options, or the list is empty) the quiz request fails and adds no record;
\* every record of the quiz store has at least one question.
C7_NoEmptyQuiz ==
    /\ \A i \in 1..Len(quizzes) :
           /\ Len(quizzes[i].questions) >= 1
           /\ quizzes[i].numQuestions = Len(quizzes[i].questions)
    /\ quiz.pc = "done" =>
           /\ Len(quiz.response[1].questions) >= 1
           /\ Len(quizzes) = 1
           /\ quizzes[1].questions = quiz.response[1].questions
    /\ ( /\ ListAnswered
         /\ \A i \in 1..Len(AnsweredItems) :
                AnsweredItems[i].obj /\ Len(ItemOptions(AnsweredItems[i])) < 4 ) =>
           /\ quiz.pc = "failed"
           /\ quiz.status = 500
           /\ quiz.response = <<>>
           /\ quizzes = <<>>

C7_Witness ==
    /\ ListAnswered
    /\ Len(AnsweredItems) = 2
    /\ \A i \in 1..Len(AnsweredItems) :
           AnsweredItems[i].obj /\ Len(ItemOptions(AnsweredItems[i])) < 4
    /\ AnsweredItems[1].options = Three
    /\ quiz.pc = "failed"
    /\ quizzes = <<>>

\* an item the claim calls malformed: no JSON object, options that are no
\* list, or fewer than 4 options
MalformedItem(item) == ~item.obj \/ Len(ItemOptions(item)) < 4

\* an item the claim calls valid: an object with at least 4 options (and a
\* correctIndex int() converts or refuses with TypeError or ValueError)
ValidItem(item) ==
    /\ item.obj
    /\ Len(ItemOptions(item)) >= 4
    /\ ItemCorrect(item).t # "inf"

\* C8: a malformed item of the question list (fewer than 4 options, options
\* that are no list, or no JSON object at all) is dropped without failing the
\* batch: when at least one other item is valid, parsing succeeds and returns
\* exactly the valid items, in their original order.
C8_MalformedItemsDropped ==
    ( /\ ListAnswered
      /\ \A i \in 1..Len(AnsweredItems) :
             MalformedItem(AnsweredItems[i]) \/ ValidItem(AnsweredItems[i])
      /\ \E i \in 1..Len(AnsweredItems) : ValidItem(AnsweredItems[i]) ) =>
        LET valid == Ascending({i \in 1..Len(AnsweredItems) :
                                   ValidItem(AnsweredItems[i])})
        IN  /\ quiz.pc = "done"
            /\ Len(ReturnedQuestions) = Len(valid)
            /\ \A k \in 1..Len(valid) :
                   /\ ReturnedQuestions[k].options =
                          SubSeq(ItemOptions(AnsweredItems[valid[k]]), 1, 4)
                   /\ AnsweredItems[valid[k]].question.t = "missing" =>
                          ReturnedQuestions[k].question.n = valid[k]

\* the part of C8 the code keeps: when every item is a JSON object
C8_ObjectItemsDropped ==
    (\A i \in 1..Len(AnsweredItems) : AnsweredItems[i].obj) => C8_MalformedItemsDropped

C8_Witness ==
    /\ Len(AnsweredItems) = 2
    /\ AnsweredItems[1].options = StrV(<<"a", "b", "c", "d">>)
    /\ AnsweredItems[1].opts = Missing
    /\ ValidItem(AnsweredItems[2])
    /\ AnsweredItems[2].question = Missing
    /\ Len(ReturnedQuestions) = 1
    /\ ReturnedQuestions[1].question.n = 2

(***************************************************************************)
(* Concurrent requests for one document: both request slots serve, the     *)
(* handlers interleave at their awaits (each remote call is awaited, so    *)
(* another request runs while it is in flight); the storage read at the    *)
(* entry and the save at the end are synchronous parts of their steps.     *)
(***************************************************************************)
InitConcurrent ==
    /\ files \in {g \in [FileIds -> Uploads] :
                      /\ ~g["f2"].exists
                      /\ g["f1"].chunks \in {<< <<"t">> >>, << <<"t">>, <<"t">> >>}}
    /\ notes = [f \in FileIds |-> <<>>]
    /\ clock = 1
    /\ started = 0
    /\ req = [r \in Reqs |-> IdleRequest]
    /\ quizzes = <<>>
    /\ quiz = IdleQuiz

NextConcurrent ==
    \/ \E r \in Reqs, force \in BOOLEAN :
           Request(r, "f1", DefaultWindowSize, force)
    \/ \E r \in Reqs, a \in SummaryAnswers : SummaryReturns(r, a)
    \/ \E r \in Reqs, a \in NoteMergeAnswers : MergeReturns(r, a)
    \/ Tick

SpecConcurrent == InitConcurrent /\ [][NextConcurrent]_vars

\* C11: under every interleaving of requests for one fileId, once a note is
\* stored for the fileId its createdAt never changes: the note stays stored
\* and every save that replaces it writes the createdAt of the note it
\* replaces.
C11_CreatedAtNeverChanges ==
    [][\A f \in FileIds :
          notes[f] # <<>> =>
              /\ notes'[f] # <<>>
              /\ notes'[f][1].createdAt = notes[f][1].createdAt]_vars

\* two requests for one fileId have both saved, neither found a note stored
\* when it began, and the note stored last carries another createdAt than the
\* note it replaced
C11_Witness ==
    /\ req["r1"].pc = "done" /\ req["r2"].pc = "done"
    /\ req["r1"].fileId = req["r2"].fileId
    /\ req["r1"].saves = 1 /\ req["r2"].saves = 1
    /\ req["r1"].response[1].createdAt # req["r2"].response[1].createdAt
    /\ req["r1"].response[1].createdAt = req["r1"].response[1].updatedAt
    /\ req["r2"].response[1].createdAt = req["r2"].response[1].updatedAt
    /\ notes[req["r1"].fileId] \in {req["r1"].response, req["r2"].response}

====
